---------------------------- MODULE Spec2Model ----------------------------
(***************************************************************************)
(* Wizer, the WebAssembly pre-initializer (src/src/lib.rs).                *)
(*                                                                         *)
(* The model follows one `Wizer` builder and one call of `Wizer::run` on   *)
(* it.  The builder's setters are actions; `run` is a sequence of steps,   *)
(* one per statement group of lib.rs lines 308-362 and 552-594, with `pc`  *)
(* the position inside `run`.                                              *)
(*                                                                         *)
(* Strings are sequences of symbols.  A rename specification is a sequence *)
(* over Alphabet, so that `trim`, `find` and slicing are computed as Rust  *)
(* computes them.                                                          *)
(***************************************************************************)
EXTENDS Naturals, Sequences, FiniteSets, TLC

VARIABLES
    \* ---- the builder (struct Wizer, lib.rs 67-163)
    init_func,            \* String
    func_renames,         \* Vec<String>
    allow_wasi,           \* bool
    wasm_multi_memory,    \* Option<bool>
    wasm_multi_value,     \* Option<bool>
    wasm_module_linking,  \* Option<bool>
    \* ---- one call of run(&self, wasm)
    pc,                   \* position inside run
    wasm,                 \* the argument of run
    renames,              \* FuncRenames::parse's result
    features,             \* the WasmFeatures handed to the validator
    rest,                 \* wasm_validate: the unread payloads (`wasm`, line 447)
    parsers,              \* wasm_validate: the parser stack (line 448)
    config,               \* the wasmtime::Config of the engine
    linker,               \* initialize: import name -> what it is bound to
    instance,             \* "none", "live" or "failed"
    has_wasi_initialize,  \* initialize's flag (line 573)
    calls,                \* the exports invoked so far, in order, each with
                          \* the statement that invoked it
    import_calls,         \* the imports invoked so far, in order
    stages,               \* the stages completed so far, in order
    error,                \* the error run returned, "" when none
    output                \* the bytes run returned, NoOutput when none

builder == <<init_func, func_renames, allow_wasi,
             wasm_multi_memory, wasm_multi_value, wasm_module_linking>>

running == <<pc, wasm, renames, features, rest, parsers, config, linker,
             instance, has_wasi_initialize, calls, import_calls, stages,
             error, output>>

vars == <<builder, running>>

(***************************************************************************)
(* Bounds of the model.                                                    *)
(***************************************************************************)
\* the longest func_renames list
MaxRenames == 2
\* the characters of all rename specifications of one list together
MaxChars == 5
\* the payloads of one input module, End payloads included
MaxPayloads == 6
\* the payloads of one input module that are neither a nested-module entry
\* nor an End
MaxEntries == 2

(***************************************************************************)
(* Strings.                                                                *)
(***************************************************************************)
\* the characters rename specifications are written in
Alphabet == {"a", "b", "=", " "}

\* char::is_whitespace, on Alphabet
IsWhitespace(c) == c = " "

\* all strings over Alphabet of exactly n characters
RECURSIVE StringsOfLen(_)
StringsOfLen(n) ==
    IF n = 0 THEN {<<>>}
    ELSE {<<c>> \o s : c \in Alphabet, s \in StringsOfLen(n - 1)}

\* all strings over Alphabet of at most n characters
StringsUpTo(n) == UNION {StringsOfLen(k) : k \in 0..n}

\* the number of leading whitespace characters of s
RECURSIVE LeadingWhitespace(_)
LeadingWhitespace(s) ==
    IF s = <<>> \/ ~IsWhitespace(Head(s)) THEN 0
    ELSE 1 + LeadingWhitespace(Tail(s))

\* the number of trailing whitespace characters of s
RECURSIVE TrailingWhitespace(_)
TrailingWhitespace(s) ==
    IF s = <<>> \/ ~IsWhitespace(s[Len(s)]) THEN 0
    ELSE 1 + TrailingWhitespace(SubSeq(s, 1, Len(s) - 1))

\* str::trim: s without its leading and trailing whitespace
Trim(s) ==
    IF LeadingWhitespace(s) = Len(s) THEN <<>>
    ELSE SubSeq(s, LeadingWhitespace(s) + 1, Len(s) - TrailingWhitespace(s))

\* str::find(c): the 0-based index of the first c in s; Len(s), which is no
\* index of s, stands for None
RECURSIVE Find(_, _)
Find(s, c) ==
    IF s = <<>> THEN 0
    ELSE IF Head(s) = c THEN 0
    ELSE 1 + Find(Tail(s), c)

\* whether str::find(c) is Some
Found(s, c) == Find(s, c) < Len(s)

\* the slice s[..i], i a 0-based byte index
SliceTo(s, i) == SubSeq(s, 1, i)

\* the slice s[i..], i a 0-based byte index
SliceFrom(s, i) == SubSeq(s, i + 1, Len(s))

\* format!("{}={}", new_name, old_name)
FormatRename(new_name, old_name) == new_name \o <<"=">> \o old_name

(***************************************************************************)
(* FuncRenames (lib.rs 165-204).                                           *)
(***************************************************************************)
\* a HashMap as a function: the map m with k -> v inserted
MapInsert(m, k, v) == (k :> v) @@ m

\* FuncRenames { rename_src_to_dst: HashMap::new(), rename_dsts: HashSet::new() }
EmptyRenames ==
    [ok |-> TRUE, err |-> "", rename_src_to_dst |-> <<>>, rename_dsts |-> {}]

\* an Err of parse: the table built so far is dropped with it
RenameError(kind) ==
    [ok |-> FALSE, err |-> kind, rename_src_to_dst |-> <<>>, rename_dsts |-> {}]

\* line 185-188: the index of '=' in the TRIMMED specification
EqualIndex(rename_spec) == Find(Trim(rename_spec), "=")

\* line 190: rename_spec[..equal], a slice of the specification as given
RenameDst(rename_spec) == SliceTo(rename_spec, EqualIndex(rename_spec))

\* line 191: rename_spec[equal + 1..], a slice of the specification as given
RenameSrc(rename_spec) == SliceFrom(rename_spec, EqualIndex(rename_spec) + 1)

\* the body of the loop of parse without the check of lines 195-197
ParseOneNoSrcCheck(ret, rename_spec) ==
    IF ~Found(Trim(rename_spec), "=") THEN RenameError("InvalidRename")
    ELSE LET dst == RenameDst(rename_spec)
             src == RenameSrc(rename_spec)
         IN  IF dst \in ret.rename_dsts THEN RenameError("DuplicateRenameDst")
             ELSE [ret EXCEPT !.rename_dsts = @ \cup {dst},
                              !.rename_src_to_dst = MapInsert(@, src, dst)]

\* the body of the loop of parse without the insert into rename_dsts
ParseOneNoDsts(ret, rename_spec) ==
    IF ~Found(Trim(rename_spec), "=") THEN RenameError("InvalidRename")
    ELSE LET dst == RenameDst(rename_spec)
             src == RenameSrc(rename_spec)
         IN  IF dst \in ret.rename_dsts THEN RenameError("DuplicateRenameDst")
             ELSE IF src \in DOMAIN ret.rename_src_to_dst
                  THEN RenameError("DuplicateRenameSrc")
             ELSE [ret EXCEPT !.rename_src_to_dst = MapInsert(@, src, dst)]

\* the body of the loop of parse (lines 184-200) for one specification
ParseOne(ret, rename_spec) ==
    IF ~Found(Trim(rename_spec), "=") THEN RenameError("InvalidRename")
    ELSE LET dst == RenameDst(rename_spec)
             src == RenameSrc(rename_spec)
         IN  IF dst \in ret.rename_dsts THEN RenameError("DuplicateRenameDst")
             ELSE IF src \in DOMAIN ret.rename_src_to_dst
                  THEN RenameError("DuplicateRenameSrc")
             ELSE [ret EXCEPT !.rename_dsts = @ \cup {dst},
                              !.rename_src_to_dst = MapInsert(@, src, dst)]

\* the loop of parse from specification i on; the first error returns
RECURSIVE ParseFrom(_, _, _)
ParseFrom(specs, i, ret) ==
    IF i > Len(specs) \/ ~ret.ok THEN ret
    ELSE ParseFrom(specs, i + 1, ParseOne(ret, specs[i]))

\* FuncRenames::parse(renames)
FuncRenamesParse(specs) ==
    IF specs = <<>> THEN EmptyRenames
    ELSE ParseFrom(specs, 1, EmptyRenames)

(***************************************************************************)
(* The input of run: a WebAssembly module, as the payloads wasmparser      *)
(* reads from it, its exports and its imports.                             *)
(***************************************************************************)
\* a string of one symbol
Name(symbol) == <<symbol>>

\* Wizer::new (line 210) and structopt's default_value (line 72)
DefaultInitFunc == Name("wizer.initialize")

\* the export the reactor ABI names (line 575)
ReactorInitialize == Name("_initialize")

\* the operators a function body is written in: the five wasm_validate names
\* (lines 462-476), one bulk-memory operator it lets through, one other
Operators ==
    {"Nop", "MemoryCopy", "TableCopy", "TableInit", "ElemDrop", "DataDrop",
     "TableSet"}

\* the function bodies of the input modules
CodeBodies ==
    {<<"Nop">>, <<"Nop", "MemoryCopy">>, <<"Nop", "TableCopy">>,
     <<"TableInit", "Nop">>, <<"ElemDrop", "TableCopy">>,
     <<"Nop", "DataDrop">>, <<"TableSet">>}

\* the data sections of the input modules, as the kinds of their segments
DataSections == {<<"Active">>, <<"Active", "Passive">>}

\* wasmparser::Payload, with what wasm_validate reads of it
Payload(kind, body) == [kind |-> kind, body |-> body]

PayloadEnd == Payload("End", <<>>)

PayloadModule == Payload("ModuleSectionEntry", <<>>)

\* the payloads that are neither a nested-module entry nor an End
Entries ==
    {Payload("Other", <<>>)}
        \cup {Payload("CodeSectionEntry", ops) : ops \in CodeBodies}
        \cup {Payload("DataSection", kinds) : kinds \in DataSections}

\* the payload sequences that finish `depth` open modules within `len`
\* payloads, `ent` of them entries: each module ends with its End, a nested
\* module's payloads follow its entry in the parent
RECURSIVE Tails(_, _, _)
Tails(len, ent, depth) ==
    IF len = 0 THEN {}
    ELSE (IF depth = 1 THEN {<<PayloadEnd>>}
          ELSE {<<PayloadEnd>> \o t : t \in Tails(len - 1, ent, depth - 1)})
         \cup {<<PayloadModule>> \o t : t \in Tails(len - 1, ent, depth + 1)}
         \cup (IF ent = 0 THEN {}
               ELSE {<<e>> \o t : e \in Entries, t \in Tails(len - 1, ent - 1, depth)})

\* the payload sequences of all well-formed modules within the bounds
Streams == Tails(MaxPayloads, MaxEntries, 1)

\* what an export of the module is: absent, a function of type () -> (),
\* a function of another type, or no function (a memory)
ExportKinds == {"absent", "func_unit", "func_other", "memory"}

\* the export names the run looks up
ExportNames == {DefaultInitFunc, ReactorInitialize}

\* the functions wasmtime_wasi::add_to_linker defines (line 562)
WasiHostFuncs == {Name("wasi_snapshot_preview1.fd_write")}

\* the function imports an input module may declare
ImportNames == WasiHostFuncs \cup {Name("env.host")}

\* a module: `valid` is the external validator's verdict on all that the
\* payloads here do not show
Module(valid, payloads, exports, imports) ==
    [valid |-> valid, payloads |-> payloads, exports |-> exports,
     imports |-> imports]

\* before run is called
NoWasm == Module(FALSE, <<>>, [n \in ExportNames |-> "absent"], {})

\* the elements of a sequence
Range(seq) == {seq[i] : i \in DOMAIN seq}

\* the operators of all function bodies of a payload sequence
OperatorsOf(payloads) ==
    UNION {Range(p.body) : p \in {q \in Range(payloads) : q.kind = "CodeSectionEntry"}}

\* the kinds of all data segments of a payload sequence
DataKindsOf(payloads) ==
    UNION {Range(p.body) : p \in {q \in Range(payloads) : q.kind = "DataSection"}}

\* whether a payload sequence holds a nested module
HasNestedModule(payloads) == PayloadModule \in Range(payloads)

(***************************************************************************)
(* Features (lib.rs 364-436).                                              *)
(***************************************************************************)
DEFAULT_WASM_MULTI_VALUE == TRUE

DEFAULT_WASM_MULTI_MEMORY == TRUE

DEFAULT_WASM_MODULE_LINKING == FALSE

\* Option<T>: None, and Some(x)
None == <<>>

Some(x) == <<x>>

\* Option::unwrap_or
UnwrapOr(option, default) == IF option = None THEN default ELSE option[1]

\* Wizer::wasmtime_config (lines 365-388), as the settings it makes
WasmtimeConfig ==
    [multi_memory    |-> UnwrapOr(wasm_multi_memory, DEFAULT_WASM_MULTI_MEMORY),
     multi_value     |-> UnwrapOr(wasm_multi_value, DEFAULT_WASM_MULTI_VALUE),
     module_linking  |-> UnwrapOr(wasm_module_linking, DEFAULT_WASM_MODULE_LINKING),
     reference_types |-> FALSE,
     simd            |-> FALSE,
     threads         |-> FALSE,
     bulk_memory     |-> FALSE]

\* wasm_features with multi_memory left at its default, whatever the builder says
WasmFeaturesUnsynced ==
    [multi_memory       |-> DEFAULT_WASM_MULTI_MEMORY,
     multi_value        |-> UnwrapOr(wasm_multi_value, DEFAULT_WASM_MULTI_VALUE),
     module_linking     |-> UnwrapOr(wasm_module_linking, DEFAULT_WASM_MODULE_LINKING),
     reference_types    |-> FALSE,
     simd               |-> FALSE,
     threads            |-> FALSE,
     tail_call          |-> FALSE,
     memory64           |-> FALSE,
     exceptions         |-> FALSE,
     bulk_memory        |-> TRUE,
     deterministic_only |-> FALSE]

\* Wizer::wasm_features (lines 391-436)
WasmFeatures ==
    [multi_memory       |-> UnwrapOr(wasm_multi_memory, DEFAULT_WASM_MULTI_MEMORY),
     multi_value        |-> UnwrapOr(wasm_multi_value, DEFAULT_WASM_MULTI_VALUE),
     module_linking     |-> UnwrapOr(wasm_module_linking, DEFAULT_WASM_MODULE_LINKING),
     reference_types    |-> FALSE,
     simd               |-> FALSE,
     threads            |-> FALSE,
     tail_call          |-> FALSE,
     memory64           |-> FALSE,
     exceptions         |-> FALSE,
     bulk_memory        |-> TRUE,
     deterministic_only |-> FALSE]

\* before the validator or the engine is set up
NoFeatures == [set |-> FALSE]

(***************************************************************************)
(* wasm_validate (lib.rs 438-500).                                         *)
(***************************************************************************)
\* the external validator with nothing against the reference-types operators
ValidateAllAnyOperator(module, f) ==
    /\ module.valid
    /\ HasNestedModule(module.payloads) => f.module_linking
    /\ (OperatorsOf(module.payloads)
            \cap {"MemoryCopy", "TableCopy", "TableInit", "ElemDrop", "DataDrop"} # {}
        \/ "Passive" \in DataKindsOf(module.payloads)) => f.bulk_memory

\* validator.validate_all(wasm) (lines 441-443): the external validator under
\* the feature set f.  A proposal's constructs are valid only with the
\* proposal enabled.
ValidateAll(module, f) ==
    /\ module.valid
    /\ HasNestedModule(module.payloads) => f.module_linking
    /\ "TableSet" \in OperatorsOf(module.payloads) => f.reference_types
    /\ (OperatorsOf(module.payloads)
            \cap {"MemoryCopy", "TableCopy", "TableInit", "ElemDrop", "DataDrop"} # {}
        \/ "Passive" \in DataKindsOf(module.payloads)) => f.bulk_memory

\* the loop over a function body (lines 460-479): "" when it reads to the
\* end, else how it leaves at the first operator it names
RECURSIVE ReadOperators(_)
ReadOperators(ops) ==
    IF ops = <<>> THEN ""
    ELSE CASE Head(ops) = "TableCopy" -> "UnsupportedTableCopy"
           [] Head(ops) = "TableInit" -> "UnsupportedTableInit"
           [] Head(ops) = "ElemDrop"  -> "UnsupportedElemDrop"
           [] Head(ops) = "DataDrop"  -> "UnsupportedDataDrop"
           [] Head(ops) = "TableSet"  -> "unreachable"
           [] OTHER                   -> ReadOperators(Tail(ops))

\* the loop over a data section (lines 485-490)
RECURSIVE ReadData(_)
ReadData(kinds) ==
    IF kinds = <<>> THEN ""
    ELSE IF Head(kinds) = "Passive" THEN "UnsupportedPassiveData"
    ELSE ReadData(Tail(kinds))

\* the state of the loop of lines 449-497: the unread payloads, the parser
\* stack (each parser named by the number of payloads unread when it was
\* made) and "" while the loop runs, else how wasm_validate left it
LoopState(unread, stack, result) ==
    [rest |-> unread, parsers |-> stack, result |-> result]

\* lines 447-448
LoopStart(module) == LoopState(module.payloads, <<Len(module.payloads)>>, "")

\* the loop's pass without the push of a nested module's parser
LoopBodyNoPush(st) ==
    IF st.parsers = <<>> THEN [st EXCEPT !.result = "Ok"]
    ELSE IF st.rest = <<>> THEN [st EXCEPT !.result = "unwrap"]
    ELSE LET payload == Head(st.rest)
             consumed == [st EXCEPT !.rest = Tail(@)]
         IN  CASE payload.kind = "CodeSectionEntry" ->
                    [consumed EXCEPT !.result = ReadOperators(payload.body)]
               [] payload.kind = "DataSection" ->
                    [consumed EXCEPT !.result = ReadData(payload.body)]
               [] payload.kind = "End" ->
                    [consumed EXCEPT !.parsers = SubSeq(@, 1, Len(@) - 1)]
               [] OTHER -> consumed

\* one pass of the loop of lines 449-497
LoopBody(st) ==
    IF st.parsers = <<>> THEN [st EXCEPT !.result = "Ok"]
    ELSE IF st.rest = <<>> THEN [st EXCEPT !.result = "unwrap"]
    ELSE LET payload == Head(st.rest)
             consumed == [st EXCEPT !.rest = Tail(@)]
         IN  CASE payload.kind = "CodeSectionEntry" ->
                    [consumed EXCEPT !.result = ReadOperators(payload.body)]
               [] payload.kind = "ModuleSectionEntry" ->
                    [consumed EXCEPT !.parsers = Append(@, Len(consumed.rest))]
               [] payload.kind = "DataSection" ->
                    [consumed EXCEPT !.result = ReadData(payload.body)]
               [] payload.kind = "End" ->
                    [consumed EXCEPT !.parsers = SubSeq(@, 1, Len(@) - 1)]
               [] OTHER -> consumed

\* the loop run to its end
RECURSIVE RunLoop(_)
RunLoop(st) == IF st.result # "" THEN st ELSE RunLoop(LoopBody(st))

\* wasm_validate(wasm) under the feature set f
WasmValidate(module, f) ==
    IF ~ValidateAll(module, f) THEN "InvalidInput"
    ELSE RunLoop(LoopStart(module)).result

\* the results of wasm_validate that are panics, not errors
Panics == {"unreachable", "unwrap"}

(***************************************************************************)
(* The modules of the crate that lib.rs calls: parse, instrument, dummy,   *)
(* snapshot and rewrite.                                                   *)
(***************************************************************************)
\* instrument::instrument(&cx) (line 316): only the export section grows,
\* by exports under a reserved prefix; every other section is as in the input
Instrument(module) ==
    [module EXCEPT !.exports = @ @@ (Name("__wizer_memory_0") :> "memory")]

\* the payloads of the rewritten module: every data segment is active, all
\* code is as in the input
RewrittenPayloads(payloads) ==
    [i \in DOMAIN payloads |->
        IF payloads[i].kind = "DataSection"
        THEN Payload("DataSection", [j \in DOMAIN payloads[i].body |-> "Active"])
        ELSE payloads[i]]

\* the names instrument exports under: the reserved prefix
SyntheticNames == {Name("__wizer_memory_0")}

\* the names of the exports a module has
Exported(module) == {n \in DOMAIN module.exports : module.exports[n] # "absent"}

\* the exports of the module that rewrite emits: not the synthetic ones, not
\* the initialization export, and not one whose name a rename overwrites
\* unless it is renamed away itself (FuncRenames, lines 165-172)
Emitted(module, table, name) ==
    {n \in Exported(module) \ (SyntheticNames \cup {name}) :
        n \in DOMAIN table.rename_src_to_dst \/ n \notin table.rename_dsts}

\* the name an export of the module is emitted under
EmittedAs(table, n) ==
    IF n \in DOMAIN table.rename_src_to_dst THEN table.rename_src_to_dst[n] ELSE n

\* the export section of the rewritten module: each export by its name and
\* by the item it is bound to, the item being named by the export of the
\* input module it comes from
RewrittenExports(module, table, name) ==
    {[name |-> EmittedAs(table, n), item |-> n] : n \in Emitted(module, table, name)}

\* an export section as the map from names to kinds a module holds
ExportKindsOf(module, section) ==
    [d \in {e.name : e \in section} |->
        module.exports[(CHOOSE e \in section : e.name = d).item]]

\* self.rewrite(..) (lines 342-348)
Rewrite(module, table, flag) ==
    [returned |-> TRUE,
     module |-> [module EXCEPT
                   !.payloads = RewrittenPayloads(@),
                   !.exports = ExportKindsOf(module,
                                   RewrittenExports(module, table, init_func))],
     exports |-> RewrittenExports(module, table, init_func),
     renames |-> table.rename_src_to_dst,
     has_wasi_initialize |-> flag]

\* dummy_imports(store, module, linker) (line 567): every import of the
\* module the linker does not define yet is defined as a dummy function
DummyImports(module, l) ==
    l @@ [n \in module.imports \ DOMAIN l |-> "dummy"]

(***************************************************************************)
(* validate_init_func and initialize (lib.rs 502-594).                     *)
(***************************************************************************)
\* module.get_export(name) and instance.get_export(name)
GetExport(module, name) ==
    IF name \in DOMAIN module.exports THEN module.exports[name] ELSE "absent"

\* the errors of validate_init_func (lines 509-522)
BadInitFunc == {"BadInitFuncType", "BadInitFuncNotFunction", "BadInitFuncMissing"}

\* validate_init_func without the check of the function's type
ValidateInitFuncAnyType(module, name) ==
    CASE GetExport(module, name) \in {"func_unit", "func_other"} -> "Ok"
      [] GetExport(module, name) = "absent" -> "BadInitFuncMissing"
      [] OTHER                              -> "BadInitFuncNotFunction"

\* validate_init_func(module) (lines 504-525): "Ok" or its error
ValidateInitFunc(module, name) ==
    CASE GetExport(module, name) = "func_unit"  -> "Ok"
      [] GetExport(module, name) = "func_other" -> "BadInitFuncType"
      [] GetExport(module, name) = "absent"     -> "BadInitFuncMissing"
      [] OTHER                                  -> "BadInitFuncNotFunction"

\* wasmtime::Linker::new (line 559)
LinkerNew == <<>>

\* the WASI host functions defined whatever allow_wasi says
AddWasiAlways(l, allow) == [n \in WasiHostFuncs |-> "wasi"] @@ l

\* lines 561-565: the WASI host functions are defined only with allow_wasi
AddWasiToLinker(l, allow) ==
    IF allow THEN [n \in WasiHostFuncs |-> "wasi"] @@ l ELSE l

\* what a call of an exported function may do: return, trap by itself, or
\* call one of the module's imports
Behaviours(module) == {<<"return">>, <<"trap">>} \cup {<<"call", n>> : n \in module.imports}

\* whether a call that behaves as b returns: a dummy import traps
Returns(b, l) ==
    CASE b[1] = "return" -> TRUE
      [] b[1] = "trap"   -> FALSE
      [] OTHER           -> l[b[2]] = "wasi"

\* the imports a call that behaves as b invokes
ImportsCalled(b) == IF b[1] = "call" THEN <<b[2]>> ELSE <<>>

\* `_initialize` looked at whenever it is exported, function or not
ReactorIsExported(module) == GetExport(module, ReactorInitialize) # "absent"

\* lines 575-576: `_initialize` is looked at only when it is a function
ReactorIsFunc(module) ==
    GetExport(module, ReactorInitialize) \in {"func_unit", "func_other"}

\* line 577: func.typed::<(), (), _>() is Ok
ReactorIsTyped(module) == GetExport(module, ReactorInitialize) = "func_unit"

\* wasmtime compiles only what its configuration enables (lines 336-337)
EngineAccepts(c, module) ==
    /\ HasNestedModule(module.payloads) => c.module_linking
    /\ "MemoryCopy" \in OperatorsOf(module.payloads) => c.bulk_memory

(***************************************************************************)
(* The state before run is called.                                         *)
(***************************************************************************)
NotParsed ==
    [ok |-> FALSE, err |-> "", rename_src_to_dst |-> <<>>, rename_dsts |-> {}]

NoOutput == [returned |-> FALSE]

\* Wizer::new (lines 208-220), and no run yet
Init ==
    /\ init_func = DefaultInitFunc
    /\ func_renames = <<>>
    /\ allow_wasi = FALSE
    /\ wasm_multi_memory = None
    /\ wasm_multi_value = None
    /\ wasm_module_linking = None
    /\ pc = "builder"
    /\ wasm = NoWasm
    /\ renames = NotParsed
    /\ features = NoFeatures
    /\ rest = <<>>
    /\ parsers = <<>>
    /\ config = NoFeatures
    /\ linker = LinkerNew
    /\ instance = "none"
    /\ has_wasi_initialize = FALSE
    /\ calls = <<>>
    /\ import_calls = <<>>
    /\ stages = <<>>
    /\ error = ""
    /\ output = NoOutput

(***************************************************************************)
(* The builder's setters (lib.rs 222-304) and the command line's           *)
(* --rename-func (lines 90-99).                                            *)
(***************************************************************************)
\* the characters of a list of rename specifications
RECURSIVE Chars(_)
Chars(specs) == IF specs = <<>> THEN 0 ELSE Len(Head(specs)) + Chars(Tail(specs))

\* the characters the bounds leave for one more rename specification
Budget == MaxChars - Chars(func_renames)

\* Wizer::init_func (lines 225-228)
InitFunc(name) ==
    /\ pc = "builder"
    /\ init_func' = name
    /\ UNCHANGED <<func_renames, allow_wasi, wasm_multi_memory, wasm_multi_value,
                   wasm_module_linking, running>>

\* Wizer::func_rename (lines 231-234)
FuncRename(new_name, old_name) ==
    /\ pc = "builder"
    /\ Len(func_renames) < MaxRenames
    /\ Len(FormatRename(new_name, old_name)) <= Budget
    /\ func_renames' = Append(func_renames, FormatRename(new_name, old_name))
    /\ UNCHANGED <<init_func, allow_wasi, wasm_multi_memory, wasm_multi_value,
                   wasm_module_linking, running>>

\* --rename-func <dst=src> (lines 90-99): structopt pushes the argument as given
RenameFuncArg(rename_spec) ==
    /\ pc = "builder"
    /\ Len(func_renames) < MaxRenames
    /\ Len(rename_spec) <= Budget
    /\ func_renames' = Append(func_renames, rename_spec)
    /\ UNCHANGED <<init_func, allow_wasi, wasm_multi_memory, wasm_multi_value,
                   wasm_module_linking, running>>

\* Wizer::allow_wasi (lines 250-253)
AllowWasi(allow) ==
    /\ pc = "builder"
    /\ allow_wasi' = allow
    /\ UNCHANGED <<init_func, func_renames, wasm_multi_memory, wasm_multi_value,
                   wasm_module_linking, running>>

\* Wizer::wasm_multi_memory (lines 285-288)
WasmMultiMemory(enable) ==
    /\ pc = "builder"
    /\ wasm_multi_memory' = Some(enable)
    /\ UNCHANGED <<init_func, func_renames, allow_wasi, wasm_multi_value,
                   wasm_module_linking, running>>

\* Wizer::wasm_multi_value (lines 293-296)
WasmMultiValue(enable) ==
    /\ pc = "builder"
    /\ wasm_multi_value' = Some(enable)
    /\ UNCHANGED <<init_func, func_renames, allow_wasi, wasm_multi_memory,
                   wasm_module_linking, running>>

\* Wizer::wasm_module_linking (lines 301-304)
WasmModuleLinking(enable) ==
    /\ pc = "builder"
    /\ wasm_module_linking' = Some(enable)
    /\ UNCHANGED <<init_func, func_renames, allow_wasi, wasm_multi_memory,
                   wasm_multi_value, running>>

(***************************************************************************)
(* Wizer::run (lib.rs 308-362), step by step.                              *)
(***************************************************************************)
\* the order with the input parsed before it is validated
AfterParseFirst(position) ==
    CASE position = "parse_renames"      -> "parse"
      [] position = "parse"              -> "wasm_validate"
      [] position = "wasm_validate"      -> "validate_loop"
      [] position = "validate_loop"      -> "instrument"
      [] position = "instrument"         -> "engine"
      [] position = "engine"             -> "compile"
      [] position = "compile"            -> "validate_init_func"
      [] position = "validate_init_func" -> "instantiate"
      [] position = "instantiate"        -> "wasi_initialize"
      [] position = "wasi_initialize"    -> "init_func"
      [] position = "init_func"          -> "snapshot"
      [] position = "snapshot"           -> "rewrite"
      [] position = "rewrite"            -> "done"

\* the order of the statements of run and of initialize: the position after
\* the statement at `position`, when that statement does not return
After(position) ==
    CASE position = "parse_renames"      -> "wasm_validate"
      [] position = "wasm_validate"      -> "validate_loop"
      [] position = "validate_loop"      -> "parse"
      [] position = "parse"              -> "instrument"
      [] position = "instrument"         -> "engine"
      [] position = "engine"             -> "compile"
      [] position = "compile"            -> "validate_init_func"
      [] position = "validate_init_func" -> "instantiate"
      [] position = "instantiate"        -> "wasi_initialize"
      [] position = "wasi_initialize"    -> "init_func"
      [] position = "init_func"          -> "snapshot"
      [] position = "snapshot"           -> "rewrite"
      [] position = "rewrite"            -> "done"

\* an invocation of the export `name` by the statement at `position`
Call(position, name) == [at |-> position, name |-> name]

\* run(&self, wasm) is called
Run(module) ==
    /\ pc = "builder"
    /\ pc' = "parse_renames"
    /\ wasm' = module
    /\ UNCHANGED <<builder, renames, features, rest, parsers, config, linker,
                   instance, has_wasi_initialize, calls, import_calls, stages,
                   error, output>>

\* line 310 without its `?`: the error is kept and run goes on
ParseRenamesAndGoOn ==
    /\ pc = "parse_renames"
    /\ renames' = FuncRenamesParse(func_renames)
    /\ pc' = After(pc)
    /\ error' = renames'.err
    /\ UNCHANGED <<builder, wasm, features, rest, parsers, config, linker,
                   instance, has_wasi_initialize, calls, import_calls, stages,
                   output>>

\* line 310: FuncRenames::parse(&self.func_renames)?
ParseRenames ==
    /\ pc = "parse_renames"
    /\ renames' = FuncRenamesParse(func_renames)
    /\ pc' = IF renames'.ok THEN After(pc) ELSE "failed"
    /\ error' = renames'.err
    /\ UNCHANGED <<builder, wasm, features, rest, parsers, config, linker,
                   instance, has_wasi_initialize, calls, import_calls, stages,
                   output>>

\* line 313, lines 441-448: the external validator, then the loop is set up
WasmValidateAll ==
    /\ pc = "wasm_validate"
    /\ features' = WasmFeatures
    /\ IF ValidateAll(wasm, WasmFeatures)
       THEN /\ pc' = After(pc)
            /\ rest' = LoopStart(wasm).rest
            /\ parsers' = LoopStart(wasm).parsers
            /\ error' = error
       ELSE /\ pc' = "failed"
            /\ error' = "InvalidInput"
            /\ UNCHANGED <<rest, parsers>>
    /\ UNCHANGED <<builder, wasm, renames, config, linker, instance,
                   has_wasi_initialize, calls, import_calls, stages, output>>

\* lines 449-499: one pass of the loop, or its exit with Ok(())
WasmValidateLoop ==
    /\ pc = "validate_loop"
    /\ LET st == LoopBody(LoopState(rest, parsers, ""))
       IN  /\ rest' = st.rest
           /\ parsers' = st.parsers
           /\ pc' = CASE st.result = ""       -> pc
                      [] st.result = "Ok"     -> After(pc)
                      [] st.result \in Panics -> "panicked"
                      [] OTHER                -> "failed"
           /\ error' = IF st.result \in {"", "Ok"} THEN error ELSE st.result
           /\ stages' = IF st.result = "Ok" THEN Append(stages, "Validated") ELSE stages
    /\ UNCHANGED <<builder, wasm, renames, features, config, linker, instance,
                   has_wasi_initialize, calls, import_calls, output>>

\* line 315: parse::parse(wasm)?
Parse ==
    /\ pc = "parse"
    /\ \E ok \in BOOLEAN :
          /\ pc' = IF ok THEN After(pc) ELSE "failed"
          /\ error' = IF ok THEN error ELSE "MalformedInput"
          /\ stages' = IF ok THEN Append(stages, "Parsed") ELSE stages
    /\ UNCHANGED <<builder, wasm, renames, features, rest, parsers, config,
                   linker, instance, has_wasi_initialize, calls, import_calls,
                   output>>

\* lines 316-330: instrument, and in a debug build the panic on an
\* instrumented module that does not validate
InstrumentWasm ==
    /\ pc = "instrument"
    /\ \E debug_assertions \in BOOLEAN :
          IF debug_assertions /\ WasmValidate(Instrument(wasm), WasmFeatures) # "Ok"
          THEN pc' = "panicked" /\ stages' = stages
          ELSE pc' = After(pc) /\ stages' = Append(stages, "Instrumented")
    /\ UNCHANGED <<builder, wasm, renames, features, rest, parsers, config,
                   linker, instance, has_wasi_initialize, calls, import_calls,
                   error, output>>

\* what the host may answer to lines 332-335: the cache configuration, the
\* engine or, with allow_wasi, the WASI context (lines 527-549) may fail
SetupOutcomes ==
    {"Ok", "ConfigFailed", "EngineFailed"}
        \cup (IF allow_wasi THEN {"WasiContextFailed"} ELSE {})

\* lines 332-335: wasmtime_config()?, Engine::new()?, wasi_context()?, Store::new
EngineSetup ==
    /\ pc = "engine"
    /\ \E outcome \in SetupOutcomes :
          /\ config' = IF outcome = "ConfigFailed" THEN config ELSE WasmtimeConfig
          /\ pc' = IF outcome = "Ok" THEN After(pc) ELSE "failed"
          /\ error' = IF outcome = "Ok" THEN error ELSE outcome
    /\ UNCHANGED <<builder, wasm, renames, features, rest, parsers, linker,
                   instance, has_wasi_initialize, calls, import_calls, stages,
                   output>>

\* lines 336-337: wasmtime::Module::new(&engine, &instrumented_wasm)?
Compile ==
    /\ pc = "compile"
    /\ IF EngineAccepts(config, Instrument(wasm))
       THEN pc' = After(pc) /\ error' = error
       ELSE pc' = "failed" /\ error' = "CompileFailed"
    /\ UNCHANGED <<builder, wasm, renames, features, rest, parsers, config,
                   linker, instance, has_wasi_initialize, calls, import_calls,
                   stages, output>>

\* line 338: self.validate_init_func(&module)?
CheckInitFunc ==
    /\ pc = "validate_init_func"
    /\ LET r == ValidateInitFunc(Instrument(wasm), init_func)
       IN  /\ pc' = IF r = "Ok" THEN After(pc) ELSE "failed"
           /\ error' = IF r = "Ok" THEN error ELSE r
    /\ UNCHANGED <<builder, wasm, renames, features, rest, parsers, config,
                   linker, instance, has_wasi_initialize, calls, import_calls,
                   stages, output>>

\* lines 559-571: the linker, the dummy imports, linker.instantiate()?; the
\* module's start function runs inside instantiate and may trap
Instantiate ==
    /\ pc = "instantiate"
    /\ linker' = DummyImports(Instrument(wasm), AddWasiToLinker(LinkerNew, allow_wasi))
    /\ \E ok \in BOOLEAN :
          /\ instance' = IF ok THEN "live" ELSE "failed"
          /\ pc' = IF ok THEN After(pc) ELSE "failed"
          /\ error' = IF ok THEN error ELSE "InstantiationFailed"
          /\ stages' = IF ok THEN Append(stages, "Instantiated") ELSE stages
    /\ UNCHANGED <<builder, wasm, renames, features, rest, parsers, config,
                   has_wasi_initialize, calls, import_calls, output>>

\* lines 573-584: the `_initialize` export
CallWasiInitialize ==
    /\ pc = "wasi_initialize"
    /\ IF ~ReactorIsFunc(Instrument(wasm))
       THEN /\ pc' = After(pc)
            /\ UNCHANGED <<has_wasi_initialize, calls, import_calls, error>>
       ELSE IF ~ReactorIsTyped(Instrument(wasm))
       THEN /\ pc' = "failed"
            /\ error' = "ReactorInitFailed"
            /\ UNCHANGED <<has_wasi_initialize, calls, import_calls>>
       ELSE \E b \in Behaviours(wasm) :
               /\ has_wasi_initialize' = TRUE
               /\ calls' = Append(calls, Call(pc, ReactorInitialize))
               /\ import_calls' = import_calls \o ImportsCalled(b)
               /\ pc' = IF Returns(b, linker) THEN After(pc) ELSE "failed"
               /\ error' = IF Returns(b, linker) THEN error ELSE "ReactorInitFailed"
    /\ UNCHANGED <<builder, wasm, renames, features, rest, parsers, config,
                   linker, instance, stages, output>>

\* lines 586-591: the configured initialization function
CallInitFunc ==
    /\ pc = "init_func"
    /\ IF GetExport(Instrument(wasm), init_func) # "func_unit"
       THEN /\ pc' = "panicked"
            /\ UNCHANGED <<calls, import_calls, error, stages>>
       ELSE \E b \in Behaviours(wasm) :
               /\ calls' = Append(calls, Call(pc, init_func))
               /\ import_calls' = import_calls \o ImportsCalled(b)
               /\ pc' = IF Returns(b, linker) THEN After(pc) ELSE "failed"
               /\ error' = IF Returns(b, linker) THEN error ELSE "InitFuncTrapped"
               /\ stages' = IF Returns(b, linker) THEN Append(stages, "Initialized")
                            ELSE stages
    /\ UNCHANGED <<builder, wasm, renames, features, rest, parsers, config,
                   linker, instance, has_wasi_initialize, output>>

\* line 341: snapshot::snapshot(&mut store, &instance)
Snapshot ==
    /\ pc = "snapshot"
    /\ pc' = After(pc)
    /\ stages' = Append(stages, "Snapshotted")
    /\ UNCHANGED <<builder, wasm, renames, features, rest, parsers, config,
                   linker, instance, has_wasi_initialize, calls, import_calls,
                   error, output>>

\* lines 342-361: rewrite, in a debug build the panic on a rewritten module
\* that does not validate, and Ok(rewritten_wasm)
RewriteAndReturn ==
    /\ pc = "rewrite"
    /\ LET rewritten_wasm == Rewrite(Instrument(wasm), renames, has_wasi_initialize)
       IN  \E debug_assertions \in BOOLEAN :
              IF debug_assertions
                 /\ WasmValidate(rewritten_wasm.module, WasmFeatures) # "Ok"
              THEN /\ pc' = "panicked"
                   /\ stages' = Append(stages, "Rewritten")
                   /\ output' = output
              ELSE /\ pc' = After(pc)
                   /\ stages' = stages \o <<"Rewritten", "Done">>
                   /\ output' = rewritten_wasm
    /\ UNCHANGED <<builder, wasm, renames, features, rest, parsers, config,
                   linker, instance, has_wasi_initialize, calls, import_calls,
                   error>>

(***************************************************************************)
(* Specifications.  All take the steps of run from the same actions; they  *)
(* differ in the setters used and in the input modules run is called on.   *)
(***************************************************************************)
\* exports with the initialization function in place and no `_initialize`
PlainExports ==
    [n \in ExportNames |-> IF n = DefaultInitFunc THEN "func_unit" ELSE "absent"]

\* the smallest module run succeeds on
PlainModule == Module(TRUE, <<PayloadEnd>>, PlainExports, {})

\* ---- the rename table: every list of specifications within the bounds
NextRenames ==
    \/ \E new_name \in StringsUpTo(Budget - 1) :
          \E old_name \in StringsUpTo(Budget - 1 - Len(new_name)) :
             FuncRename(new_name, old_name)
    \/ \E rename_spec \in StringsUpTo(Budget) : RenameFuncArg(rename_spec)
    \/ Run(PlainModule)
    \/ ParseRenames

SpecRenames == Init /\ [][NextRenames]_vars

\* ---- wasm_validate: every payload sequence within the bounds
ValidateInputs == {Module(v, s, PlainExports, {}) : v \in BOOLEAN, s \in Streams}

NextValidate ==
    \/ WasmModuleLinking(TRUE)
    \/ \E module \in ValidateInputs : Run(module)
    \/ ParseRenames
    \/ WasmValidateAll
    \/ WasmValidateLoop
    \/ Parse

SpecValidate == Init /\ [][NextValidate]_vars

\* ---- the loop of wasm_validate: the payload sequences within the bounds
\* whose entries are of four kinds, one of them a body with table.set and one
\* a body the loop rejects
LoopEntries ==
    {Payload("Other", <<>>),
     Payload("CodeSectionEntry", <<"TableSet">>),
     Payload("CodeSectionEntry", <<"Nop", "TableCopy">>),
     Payload("DataSection", <<"Active">>)}

LoopInputs ==
    {module \in ValidateInputs :
        Range(module.payloads) \subseteq LoopEntries \cup {PayloadEnd, PayloadModule}}

NextLoop ==
    \/ WasmModuleLinking(TRUE)
    \/ \E module \in LoopInputs : Run(module)
    \/ ParseRenames
    \/ WasmValidateAll
    \/ WasmValidateLoop
    \/ Parse

\* run is sequential code: the loop of wasm_validate, once entered, takes
\* its next pass
SpecLoop == Init /\ [][NextLoop]_vars /\ WF_vars(WasmValidateLoop)

\* ---- the features: every setting of the three proposals
ConfigInputs ==
    {Module(TRUE, s, PlainExports, {}) :
        s \in {<<PayloadEnd>>, <<PayloadModule, PayloadEnd, PayloadEnd>>}}

NextConfig ==
    \/ \E enable \in BOOLEAN : WasmMultiMemory(enable)
    \/ \E enable \in BOOLEAN : WasmMultiValue(enable)
    \/ \E enable \in BOOLEAN : WasmModuleLinking(enable)
    \/ \E module \in ConfigInputs : Run(module)
    \/ ParseRenames
    \/ WasmValidateAll
    \/ WasmValidateLoop
    \/ Parse
    \/ InstrumentWasm
    \/ EngineSetup

SpecConfig == Init /\ [][NextConfig]_vars

\* ---- the whole run
\* the names and the specifications the renames of a whole run are made of
RunNames == {<<"a">>, <<"b">>}

RunRenameArgs == {<<"a">>}

\* the payload sequences of the modules of a whole run
RunStreams ==
    {<<PayloadEnd>>,
     <<Payload("CodeSectionEntry", <<"Nop">>), PayloadEnd>>,
     <<Payload("CodeSectionEntry", <<"Nop", "MemoryCopy">>), PayloadEnd>>,
     <<Payload("CodeSectionEntry", <<"Nop", "TableCopy">>), PayloadEnd>>,
     <<Payload("DataSection", <<"Active", "Passive">>), PayloadEnd>>}

RunInputs ==
    {Module(v, s, e, i) : v \in BOOLEAN, s \in RunStreams,
                          e \in [ExportNames -> ExportKinds],
                          i \in SUBSET ImportNames}

Next ==
    \/ \E name \in ExportNames : InitFunc(name)
    \/ \E new_name \in RunNames, old_name \in RunNames : FuncRename(new_name, old_name)
    \/ \E rename_spec \in RunRenameArgs : RenameFuncArg(rename_spec)
    \/ \E allow \in BOOLEAN : AllowWasi(allow)
    \/ \E module \in RunInputs : Run(module)
    \/ ParseRenames
    \/ WasmValidateAll
    \/ WasmValidateLoop
    \/ Parse
    \/ InstrumentWasm
    \/ EngineSetup
    \/ Compile
    \/ CheckInitFunc
    \/ Instantiate
    \/ CallWasiInitialize
    \/ CallInitFunc
    \/ Snapshot
    \/ RewriteAndReturn

Spec == Init /\ [][Next]_vars

\* ---- the rewritten exports: the builder has its renames and its
\* initialization function set, run is called on modules that export the
\* names the renames speak of
\* the export names of these runs
RewriteNames == {<<"a">>, <<"b">>, DefaultInitFunc}

\* the specifications func_rename makes of these names
RewriteSpecs == {FormatRename(new_name, old_name) : new_name, old_name \in RewriteNames}

\* the lists of exactly n of these specifications
RECURSIVE RewriteListsOfLen(_)
RewriteListsOfLen(n) ==
    IF n = 0 THEN {<<>>}
    ELSE {Append(l, r) : l \in RewriteListsOfLen(n - 1), r \in RewriteSpecs}

\* the lists func_rename calls can have left in the builder
RewriteLists == UNION {RewriteListsOfLen(n) : n \in 0..MaxRenames}

\* the modules of these runs: every choice of what each name exports
RewriteInputs ==
    {Module(TRUE, <<Payload("DataSection", <<"Active">>), PayloadEnd>>, e, {}) :
        e \in [RewriteNames -> {"absent", "func_unit", "memory"}]}

\* the builder after init_func and func_rename calls, and no run yet
InitRewrite ==
    /\ init_func \in {DefaultInitFunc, <<"a">>}
    /\ func_renames \in RewriteLists
    /\ allow_wasi = FALSE
    /\ wasm_multi_memory = None
    /\ wasm_multi_value = None
    /\ wasm_module_linking = None
    /\ pc = "builder"
    /\ wasm = NoWasm
    /\ renames = NotParsed
    /\ features = NoFeatures
    /\ rest = <<>>
    /\ parsers = <<>>
    /\ config = NoFeatures
    /\ linker = LinkerNew
    /\ instance = "none"
    /\ has_wasi_initialize = FALSE
    /\ calls = <<>>
    /\ import_calls = <<>>
    /\ stages = <<>>
    /\ error = ""
    /\ output = NoOutput

NextRewrite ==
    \/ \E module \in RewriteInputs : Run(module)
    \/ ParseRenames
    \/ WasmValidateAll
    \/ WasmValidateLoop
    \/ Parse
    \/ InstrumentWasm
    \/ EngineSetup
    \/ Compile
    \/ CheckInitFunc
    \/ Instantiate
    \/ CallWasiInitialize
    \/ CallInitFunc
    \/ Snapshot
    \/ RewriteAndReturn

SpecRewrite == InitRewrite /\ [][NextRewrite]_vars

(***************************************************************************)
(* Properties of the rename table (SpecRenames).                           *)
(***************************************************************************)
\* FuncRenames::parse has returned
RenamesParsed == pc \notin {"builder", "parse_renames"}

\* the destination a specification `dst=src` names: the characters before
\* its first '='
SpecDst(rename_spec) == SliceTo(rename_spec, Find(rename_spec, "="))

\* the source a specification `dst=src` names: the characters after its
\* first '='
SpecSrc(rename_spec) == SliceFrom(rename_spec, Find(rename_spec, "=") + 1)

\* two specifications of the list name the same destination or the same source
SharesName ==
    \E i, j \in DOMAIN func_renames :
        /\ i # j
        /\ Found(func_renames[i], "=") /\ Found(func_renames[j], "=")
        /\ \/ SpecDst(func_renames[i]) = SpecDst(func_renames[j])
           \/ SpecSrc(func_renames[i]) = SpecSrc(func_renames[j])

\* C1: parse fails for every rename list in which two specifications share
\* a destination name or share a source name; it succeeds only when every
\* source and every destination occurs at most once.
C1_DuplicateRejected == RenamesParsed /\ SharesName => ~renames.ok

\* C2: for every specification `dst=src` of a list parse accepts, the table
\* maps src to dst, dst being the characters before the first '=' and src the
\* characters after it, leading or trailing whitespace included.
C2_TableMapsSrcToDst ==
    RenamesParsed /\ renames.ok =>
        \A i \in DOMAIN func_renames :
            /\ SpecSrc(func_renames[i]) \in DOMAIN renames.rename_src_to_dst
            /\ renames.rename_src_to_dst[SpecSrc(func_renames[i])]
                   = SpecDst(func_renames[i])

(***************************************************************************)
(* Properties of wasm_validate (SpecValidate).                             *)
(***************************************************************************)
\* the errors of wasm_validate that match what a payload sequence holds
UnsupportedIn(payloads) ==
    {e \in {"UnsupportedTableCopy", "UnsupportedTableInit", "UnsupportedElemDrop",
            "UnsupportedDataDrop", "UnsupportedPassiveData"} :
        \/ e = "UnsupportedTableCopy" /\ "TableCopy" \in OperatorsOf(payloads)
        \/ e = "UnsupportedTableInit" /\ "TableInit" \in OperatorsOf(payloads)
        \/ e = "UnsupportedElemDrop" /\ "ElemDrop" \in OperatorsOf(payloads)
        \/ e = "UnsupportedDataDrop" /\ "DataDrop" \in OperatorsOf(payloads)
        \/ e = "UnsupportedPassiveData" /\ "Passive" \in DataKindsOf(payloads)}

\* the module is valid in the profile the builder sets: the validator has
\* nothing against it, nested modules come only with module linking, and no
\* operator of the reference-types proposal occurs
ValidInProfile ==
    /\ wasm.valid
    /\ HasNestedModule(wasm.payloads) => wasm_module_linking = Some(TRUE)
    /\ "TableSet" \notin OperatorsOf(wasm.payloads)

\* C4: a module that holds table.copy, table.init, elem.drop, data.drop or a
\* passive data segment, in the outermost module or in a nested one, never
\* passes wasm_validate: the loop does not end before it meets the construct,
\* run fails before the input is parsed, and for a module valid in the profile
\* the error is one that matches a construct the module holds.
C4_UnsupportedRejected ==
    pc # "builder" /\ UnsupportedIn(wasm.payloads) # {} =>
        /\ pc \in {"parse_renames", "wasm_validate", "validate_loop", "failed"}
        /\ stages = <<>>
        /\ pc = "validate_loop" => parsers # <<>>
        /\ pc = "failed" => error \in UnsupportedIn(wasm.payloads) \cup {"InvalidInput"}
        /\ pc = "failed" /\ ValidInProfile => error \in UnsupportedIn(wasm.payloads)

\* a module nested in a nested module holds the construct wasm_validate
\* rejects the input for
C4_Witness ==
    /\ pc = "failed"
    /\ error \in UnsupportedIn(wasm.payloads)
    /\ Len(parsers) = 3

(***************************************************************************)
(* Properties of the whole run (Spec).                                     *)
(***************************************************************************)
\* the positions of run after validate_init_func has returned Ok
AfterInitCheck ==
    {"instantiate", "wasi_initialize", "init_func", "snapshot", "rewrite", "done"}

\* the export named init_func is not a function of type () -> ()
InitFuncIsBad == pc # "builder" /\ GetExport(wasm, init_func) # "func_unit"

\* C3: when the module has no export named init_func, or that export is not
\* a function, or not one of type () -> (), the check of line 338 makes run
\* fail with a BadInitFunc error; the module is never instantiated and no
\* export of it is invoked.
C3_BadInitFuncNotRun ==
    /\ [](InitFuncIsBad =>
            /\ pc \notin AfterInitCheck
            /\ instance = "none"
            /\ calls = <<>>)
    /\ [][pc = "validate_init_func" /\ InitFuncIsBad =>
            pc' = "failed" /\ error' \in BadInitFunc]_vars

\* run has failed on the init function although `_initialize` is there to call
C3_Witness ==
    /\ pc = "failed"
    /\ error = "BadInitFuncType"
    /\ GetExport(wasm, ReactorInitialize) = "func_unit"
    /\ calls = <<>>

\* lines 573-584 have been executed
ReactorStepDone == instance = "live" /\ pc # "wasi_initialize"

\* `_initialize` has been invoked by lines 573-584
ReactorInvoked == \E i \in DOMAIN calls : calls[i].at = "wasi_initialize"

\* run has gone on to the call of the init function
WentOnToInitFunc ==
    pc = "init_func" \/ \E i \in DOMAIN calls : calls[i].at = "init_func"

\* C5 as claimed: `_initialize` is invoked iff it is exported as a function
\* of type () -> (); in every other case it is skipped and run goes on to
\* the init function; the flag is true exactly when it was invoked.
C5_OtherwiseSkipped ==
    ReactorStepDone =>
        /\ ReactorInvoked <=> GetExport(wasm, ReactorInitialize) = "func_unit"
        /\ has_wasi_initialize <=> ReactorInvoked
        /\ GetExport(wasm, ReactorInitialize) # "func_unit" => WentOnToInitFunc

\* C5 as amended: `_initialize` is invoked iff it is exported as a function
\* of type () -> (), and before any other export; an export that is absent
\* or no function is skipped and run goes on to the init function; a
\* function of another type makes run fail with the error of line 582, with
\* no export invoked; the flag is true exactly when `_initialize` was invoked.
C5_ReactorInitialize ==
    /\ ~ReactorStepDone => ~has_wasi_initialize /\ calls = <<>>
    /\ ReactorStepDone =>
        /\ ReactorInvoked <=> GetExport(wasm, ReactorInitialize) = "func_unit"
        /\ has_wasi_initialize <=> ReactorInvoked
        /\ ReactorInvoked => calls[1] = Call("wasi_initialize", ReactorInitialize)
        /\ GetExport(wasm, ReactorInitialize) \in {"absent", "memory"} =>
              WentOnToInitFunc
        /\ GetExport(wasm, ReactorInitialize) = "func_other" =>
              pc = "failed" /\ error = "ReactorInitFailed" /\ calls = <<>>

\* `_initialize` is a function of another type and run has failed on it
C5_Witness ==
    /\ ReactorStepDone
    /\ GetExport(wasm, ReactorInitialize) = "func_other"
    /\ error = "ReactorInitFailed"

\* C6: in a successful run the export named init_func is invoked exactly
\* once, as the last invocation and on the live instance, whatever the name.
C6_InitFuncOnce ==
    pc = "done" =>
        /\ instance = "live"
        /\ Cardinality({i \in DOMAIN calls : calls[i].name = init_func}) = 1
        /\ calls[Len(calls)] = Call("init_func", init_func)

\* the stages in the order of the code
StageOrder ==
    <<"Validated", "Parsed", "Instrumented", "Instantiated", "Initialized",
      "Snapshotted", "Rewritten", "Done">>

\* the stages in the order claimed
ClaimedOrder ==
    <<"Parsed", "Validated", "Instrumented", "Instantiated", "Initialized",
      "Snapshotted", "Rewritten", "Done">>

IsPrefix(s, t) == Len(s) <= Len(t) /\ s = SubSeq(t, 1, Len(s))

\* C7 as claimed: the stages completed are, in order, Parsed, Validated,
\* Instrumented, Instantiated, Initialized, Snapshotted, Rewritten, Done.
C7_ParsedFirst == IsPrefix(stages, ClaimedOrder)

\* C7 as amended: the stages completed are, in order, Validated, Parsed,
\* Instrumented, Instantiated, Initialized, Snapshotted, Rewritten, Done; each
\* completes once, after the one before it, and run is done exactly when
\* all have.
C7_StageOrder ==
    /\ IsPrefix(stages, StageOrder)
    /\ pc = "done" <=> stages = StageOrder

\* a run that has gone through every stage
C7_Witness == pc = "done" /\ Len(stages) = 8

\* C8: a failure is returned at once and alone: run has failed exactly when
\* it holds an error, a failed run has neither snapshotted nor rewritten nor
\* returned bytes, bytes are returned only by a run all of whose stages
\* completed, and no step follows a failure.
C8_FailureReturns ==
    /\ [](/\ pc = "failed" <=> error # ""
          /\ pc = "failed" =>
                /\ output = NoOutput
                /\ "Snapshotted" \notin Range(stages)
                /\ "Rewritten" \notin Range(stages)
          /\ output # NoOutput =>
                pc = "done" /\ error = "" /\ stages = StageOrder)
    /\ [][pc = "failed" => UNCHANGED vars]_vars

\* the init function trapped after `_initialize` had returned
C8_Witness ==
    /\ pc = "failed"
    /\ error = "InitFuncTrapped"
    /\ has_wasi_initialize
    /\ output = NoOutput

\* C9: once the linker is set up, an import of the module is bound to a host
\* function only when allow_wasi is set and the import is a WASI host
\* function, and is a dummy otherwise; a run in which an import bound to a
\* dummy was called has failed in that call and has returned no bytes.
C9_ImportsAreDummies ==
    /\ instance # "none" =>
          \A n \in wasm.imports :
              /\ n \in DOMAIN linker
              /\ linker[n] = IF allow_wasi /\ n \in WasiHostFuncs THEN "wasi" ELSE "dummy"
    /\ (\E i \in DOMAIN import_calls : ~(allow_wasi /\ import_calls[i] \in WasiHostFuncs)) =>
          /\ pc = "failed"
          /\ error \in {"ReactorInitFailed", "InitFuncTrapped"}
          /\ output = NoOutput

\* without allow_wasi, the call of an import named like a WASI host function
C9_Witness ==
    /\ ~allow_wasi
    /\ import_calls # <<>>
    /\ import_calls[1] \in WasiHostFuncs
    /\ pc = "failed"

(***************************************************************************)
(* Properties of the features (SpecConfig).                                *)
(***************************************************************************)
\* the value an option stands for
Chosen(option, default) == IF option = None THEN default ELSE option[1]

Returned == pc = "done" /\ output # NoOutput

\* the sources of the table that the input module exports as a function
FunctionSources ==
    {src \in DOMAIN renames.rename_src_to_dst :
        GetExport(wasm, src) \in {"func_unit", "func_other"}}

\* the output module exports `name` bound to what the input exported as `item`
OutputExports(name, item) == [name |-> name, item |-> item] \in output.exports

\* the output module has an export named `name`
OutputHasName(name) == \E e \in output.exports : e.name = name

\* `name` is the destination of a rename of another source than src
DstOfAnother(name, src) ==
    \E other \in DOMAIN renames.rename_src_to_dst \ {src} :
        renames.rename_src_to_dst[other] = name

\* the rename law for the source src: dst is exported, bound to what the
\* input exported as src and to nothing else
RenamedTo(src) ==
    /\ OutputExports(renames.rename_src_to_dst[src], src)
    /\ \A e \in output.exports :
          e.name = renames.rename_src_to_dst[src] => e.item = src

TableValues ==
    {renames.rename_src_to_dst[src] : src \in DOMAIN renames.rename_src_to_dst}

\* the table maps distinct sources to distinct destinations
TableInjective ==
    \A s1, s2 \in DOMAIN renames.rename_src_to_dst :
        renames.rename_src_to_dst[s1] = renames.rename_src_to_dst[s2] => s1 = s2

\* C12: when parse succeeds on a list of n specifications, however func_rename
\* and --rename-func made the list, rename_src_to_dst has exactly n entries
\* and is injective, and rename_dsts is exactly the set of its values; for the
\* empty list both are empty.
C12_TableShape ==
    RenamesParsed /\ renames.ok =>
        /\ Cardinality(DOMAIN renames.rename_src_to_dst) = Len(func_renames)
        /\ TableInjective
        /\ renames.rename_dsts = TableValues
        /\ func_renames = <<>> =>
              renames.rename_src_to_dst = <<>> /\ renames.rename_dsts = {}

\* parse has accepted two specifications, one of them with leading whitespace
C12_Witness ==
    /\ RenamesParsed
    /\ renames.ok
    /\ Len(func_renames) = 2
    /\ \E i \in DOMAIN func_renames : LeadingWhitespace(func_renames[i]) > 0
    /\ Cardinality(renames.rename_dsts) = 2

\* the positions of '=' in a specification: each is a way func_rename can
\* have made it, of the name before the '=' and the name after it
Splits(rename_spec) == {k \in DOMAIN rename_spec : rename_spec[k] = "="}

\* the new_name and the old_name func_rename made the specification of, for
\* the '=' at position k: FormatRename(NewNameAt, OldNameAt) is the specification
NewNameAt(rename_spec, k) == SubSeq(rename_spec, 1, k - 1)

OldNameAt(rename_spec, k) == SubSeq(rename_spec, k + 1, Len(rename_spec))

\* the table maps old_name to new_name, and new_name is a destination
MapsTo(old_name, new_name) ==
    /\ old_name \in DOMAIN renames.rename_src_to_dst
    /\ renames.rename_src_to_dst[old_name] = new_name
    /\ new_name \in renames.rename_dsts

\* C13: for every pair of names, func_rename(new_name, old_name) followed by
\* parse yields a table that maps old_name to new_name, with new_name in
\* rename_dsts, also when a name contains '=' or begins with whitespace.
C13_RoundTrip ==
    RenamesParsed /\ renames.ok =>
        \A i \in DOMAIN func_renames :
            \A k \in Splits(func_renames[i]) :
                MapsTo(OldNameAt(func_renames[i], k), NewNameAt(func_renames[i], k))

(***************************************************************************)
(* Properties of the loop of wasm_validate (SpecLoop).                     *)
(***************************************************************************)
\* the external validator has accepted the module and the loop is set up
LoopEntered == pc \notin {"builder", "parse_renames", "wasm_validate"} /\ error # "InvalidInput"

\* the payloads the loop has read
PayloadsRead == SubSeq(wasm.payloads, 1, Len(wasm.payloads) - Len(rest))

\* how many of the payloads read are of the kind
ReadOfKind(kind) ==
    Cardinality({i \in DOMAIN PayloadsRead : PayloadsRead[i].kind = kind})

\* the loop has exited with Ok(())
LoopExitedOk == "Validated" \in Range(stages)

\* C14: for a module the external validator accepts, the loop of
\* wasm_validate terminates; the parser stack holds one parser, plus one for
\* each nested-module entry read, less one for each End read; it is not empty
\* when a payload is read; the loop exits with Ok exactly when the stack is
\* empty; and no pass panics, in the NeedMoreData arm, the TableSet arm or
\* an unwrap.
C14_LoopTerminates ==
    /\ [](LoopEntered =>
            /\ Len(parsers) = 1 + ReadOfKind("ModuleSectionEntry") - ReadOfKind("End")
            /\ pc # "panicked"
            /\ pc = "validate_loop" /\ parsers # <<>> => rest # <<>>
            /\ LoopExitedOk => parsers = <<>> /\ rest = <<>>)
    /\ [][pc = "validate_loop" =>
            /\ rest' # rest => parsers # <<>>
            /\ parsers = <<>> <=> LoopExitedOk']_vars
    /\ (pc = "validate_loop" ~> pc # "validate_loop")

\* the loop has exited with Ok on a module nested in a nested module
C14_Witness ==
    /\ LoopEntered
    /\ LoopExitedOk
    /\ parsers = <<>>
    /\ ReadOfKind("ModuleSectionEntry") = 2
    /\ wasm.payloads[2].kind = "ModuleSectionEntry"

=============================================================================
